---- MODULE Spec2Model ----
(***************************************************************************)
(* A model of namefmt (src/src/main.rs): the case conversions, the pattern *)
(* matcher, exe/package detection, format_filename and the traversal of    *)
(* process_path.  A string is a sequence of one-character strings.         *)
(***************************************************************************)
EXTENDS Integers, Sequences, FiniteSets, TLC

VARIABLES
    \* the case-conversion runs (to_camel_case, to_snake_case, to_kebab_case)
    fn,         \* which conversion runs: "camel", "snake", "kebab" ("none": not this run)
    input,      \* the string the first application was given
    cur,        \* the string the current application scans
    pos,        \* how many characters (words, for camel) the loop has consumed
    acc,        \* `result` of the conversion, so far
    pass,       \* 1: first application, 2: application to its own output
    first,      \* the first application's output
    \* format_filename
    name,       \* file name
    config,     \* Config
    fs,         \* names present in the file's parent directory
    timestamp,  \* --timestamp
    today,      \* the UTC date the clock gives
    result,     \* `result` of format_filename
    detected,   \* what is_exe_or_package returned
    ret,        \* the Option<String> returned
    pc,         \* position in format_filename / main and process_path
    \* process_path
    fs0,        \* the directory as process_path found it
    root,       \* what the path given is: "dir", "file", "missing"
    cfgHere,    \* the config path lies in that directory, and is absent
    pending,    \* entries present at the start of the walk, not yet yielded
    added,      \* names renames put in the directory, not yielded since
    revisits,   \* entries yielded from `added`
    order,      \* the entries yielded so far, in order
    inplace,    \* --inplace
    out,        \* lines printed: <<kind, old name, new name>>
    exit        \* exit code of main (-1: still running)

vars == <<fn, input, cur, pos, acc, pass, first, name, config, fs, timestamp,
          today, result, detected, ret, pc, fs0, root, cfgHere, pending, added,
          revisits, order, inplace, out, exit>>

caseVars == <<fn, input, cur, pos, acc, pass, first>>
fmtVars == <<name, config, fs, timestamp, today, result, detected, ret>>
runVars == <<fs0, root, cfgHere, pending, added, revisits, order, inplace, out, exit>>

(***************************************************************************)
(* Characters                                                              *)
(***************************************************************************)
UpperChars == <<"A","B","C","D","E","F","G","H","I","J","K","L","M",
                "N","O","P","Q","R","S","T","U","V","W","X","Y","Z">>
LowerChars == <<"a","b","c","d","e","f","g","h","i","j","k","l","m",
                "n","o","p","q","r","s","t","u","v","w","x","y","z">>

IndexIn(seq, c) == IF \E i \in 1..Len(seq) : seq[i] = c
                   THEN CHOOSE i \in 1..Len(seq) : seq[i] = c
                   ELSE 0

is_uppercase(c) == IndexIn(UpperChars, c) # 0

char_to_lowercase(c) == IF IndexIn(UpperChars, c) # 0
                        THEN LowerChars[IndexIn(UpperChars, c)] ELSE c

char_to_uppercase(c) == IF IndexIn(LowerChars, c) # 0
                        THEN UpperChars[IndexIn(LowerChars, c)] ELSE c

to_lowercase(s) == [i \in 1..Len(s) |-> char_to_lowercase(s[i])]

ends_with_char(s, c) == Len(s) > 0 /\ s[Len(s)] = c

\* str::split: the pieces between separators, empty pieces kept
split(s, seps) ==
    LET RECURSIVE go(_, _, _)
        go(i, piece, pieces) ==
            IF i > Len(s) THEN Append(pieces, piece)
            ELSE IF s[i] \in seps THEN go(i + 1, <<>>, Append(pieces, piece))
            ELSE go(i + 1, Append(piece, s[i]), pieces)
    IN go(1, <<>>, <<>>)

(***************************************************************************)
(* The three conversions.  X_push is one iteration of the loop of X.       *)
(***************************************************************************)
CamelSeps == {" ", "_", "-"}

\* one iteration of the loop over words.enumerate(); i is the 0-based index
camel_push(res, i, word) ==
    IF word = <<>> THEN res
    ELSE IF i = 0 THEN res \o to_lowercase(word)
    ELSE res \o <<char_to_uppercase(word[1])>> \o Tail(word)

to_camel_case(s) ==
    LET words == split(s, CamelSeps)
        RECURSIVE go(_, _)
        go(i, res) == IF i >= Len(words) THEN res
                      ELSE go(i + 1, camel_push(res, i, words[i + 1]))
    IN go(0, <<>>)

\* to_snake_case with the upper-case branch of to_kebab_case pasted in
snake_push_kebab_branch(res, ch) ==
    IF is_uppercase(ch)
    THEN (IF res # <<>> /\ ~ends_with_char(res, "-") THEN Append(res, "-") ELSE res)
         \o <<char_to_lowercase(ch)>>
    ELSE IF ch = " " \/ ch = "-"
    THEN (IF res # <<>> /\ ~ends_with_char(res, "_") THEN Append(res, "_") ELSE res)
    ELSE Append(res, ch)

snake_push(res, ch) ==
    IF is_uppercase(ch)
    THEN (IF res # <<>> /\ ~ends_with_char(res, "_") THEN Append(res, "_") ELSE res)
         \o <<char_to_lowercase(ch)>>
    ELSE IF ch = " " \/ ch = "-"
    THEN (IF res # <<>> /\ ~ends_with_char(res, "_") THEN Append(res, "_") ELSE res)
    ELSE Append(res, ch)

to_snake_case(s) ==
    LET RECURSIVE go(_, _)
        go(i, res) == IF i > Len(s) THEN res ELSE go(i + 1, snake_push(res, s[i]))
    IN go(1, <<>>)

kebab_push(res, ch) ==
    IF is_uppercase(ch)
    THEN (IF res # <<>> /\ ~ends_with_char(res, "-") THEN Append(res, "-") ELSE res)
         \o <<char_to_lowercase(ch)>>
    ELSE IF ch = " " \/ ch = "_"
    THEN (IF res # <<>> /\ ~ends_with_char(res, "-") THEN Append(res, "-") ELSE res)
    ELSE Append(res, ch)

to_kebab_case(s) ==
    LET RECURSIVE go(_, _)
        go(i, res) == IF i > Len(s) THEN res ELSE go(i + 1, kebab_push(res, s[i]))
    IN go(1, <<>>)

apply_style(s, style) ==
    CASE style = "CamelCase" -> to_camel_case(s)
      [] style = "SnakeCase" -> to_snake_case(s)
      [] style = "KebabCase" -> to_kebab_case(s)

(***************************************************************************)
(* Input domains                                                           *)
(***************************************************************************)
MaxCaseLen == 4
MaxNameLen == 3
MaxTailLen == 1
MaxBehaviors == 2
MaxFiles == 2
MaxRevisits == 1

Strs(alphabet, n) == UNION {[1..k -> alphabet] : k \in 0..n}

\* one character of each class the conversions tell apart
CaseAlphabet == {"A", "a", "1", ".", " ", "_", "-"}

NoneVal == <<"None">>
Some(s) == <<"Some", s>>

(***************************************************************************)
(* Running a conversion, one loop iteration per step, then running it      *)
(* again on its own output.                                                *)
(***************************************************************************)
InitCase ==
    /\ fn \in {"camel", "snake", "kebab"}
    /\ input \in Strs(CaseAlphabet, MaxCaseLen)
    /\ cur = input
    /\ pos = 0
    /\ acc = <<>>
    /\ pass = 1
    /\ first = <<>>
    /\ name = <<>> /\ config = <<>> /\ fs = {} /\ timestamp = FALSE
    /\ today = <<>> /\ result = <<>> /\ detected = FALSE /\ ret = NoneVal
    /\ pc = "case"
    /\ fs0 = {} /\ root = "none" /\ cfgHere = FALSE /\ pending = {} /\ added = {}
    /\ revisits = 0 /\ order = <<>> /\ inplace = FALSE /\ out = <<>>
    /\ exit = -1

CaseDone ==
    IF fn = "camel" THEN pos = Len(split(cur, CamelSeps)) ELSE pos = Len(cur)

CamelWord ==
    /\ pc = "case" /\ fn = "camel"
    /\ pos < Len(split(cur, CamelSeps))
    /\ acc' = camel_push(acc, pos, split(cur, CamelSeps)[pos + 1])
    /\ pos' = pos + 1
    /\ UNCHANGED <<fn, input, cur, pass, first, pc>>
    /\ UNCHANGED <<fmtVars, runVars>>

SnakeChar ==
    /\ pc = "case" /\ fn = "snake"
    /\ pos < Len(cur)
    /\ acc' = snake_push(acc, cur[pos + 1])
    /\ pos' = pos + 1
    /\ UNCHANGED <<fn, input, cur, pass, first, pc>>
    /\ UNCHANGED <<fmtVars, runVars>>

KebabChar ==
    /\ pc = "case" /\ fn = "kebab"
    /\ pos < Len(cur)
    /\ acc' = kebab_push(acc, cur[pos + 1])
    /\ pos' = pos + 1
    /\ UNCHANGED <<fn, input, cur, pass, first, pc>>
    /\ UNCHANGED <<fmtVars, runVars>>

\* the conversion returned; apply it to what it returned
Reapply ==
    /\ pc = "case" /\ pass = 1 /\ CaseDone
    /\ first' = acc
    /\ cur' = acc
    /\ acc' = <<>>
    /\ pos' = 0
    /\ pass' = 2
    /\ UNCHANGED <<fn, input, pc>>
    /\ UNCHANGED <<fmtVars, runVars>>

NextCase == CamelWord \/ SnakeChar \/ KebabChar \/ Reapply

SpecCase == InitCase /\ [][NextCase]_vars

(***************************************************************************)
(* Pattern matching, detection, format_filename                            *)
(***************************************************************************)
starts_with(s, p) == Len(p) <= Len(s) /\ SubSeq(s, 1, Len(p)) = p

ends_with(s, p) == Len(p) <= Len(s) /\ SubSeq(s, Len(s) - Len(p) + 1, Len(s)) = p

contains(s, p) == \E i \in 0..(Len(s) - Len(p)) : SubSeq(s, i + 1, i + Len(p)) = p

matches_pattern(n, pattern) ==
    IF \E i \in 1..Len(pattern) : pattern[i] = "*"
    THEN LET parts == split(pattern, {"*"})
         IN IF Len(parts) = 2 THEN starts_with(n, parts[1]) /\ ends_with(n, parts[2])
            ELSE IF Len(parts) = 1 THEN contains(n, parts[1])
            ELSE FALSE
    ELSE contains(n, pattern)

\* Path::extension of a file name: what follows the last dot, unless there is
\* no dot, the only dot comes first, or the name is ".."
extension(n) ==
    LET dots == {i \in 1..Len(n) : n[i] = "."}
        last == CHOOSE i \in dots : \A j \in dots : j <= i
    IN IF dots = {} \/ n = <<".", ".">> THEN NoneVal
       ELSE IF last = 1 THEN NoneVal
       ELSE Some(SubSeq(n, last + 1, Len(n)))

\* path is the file `n` in a directory holding the names `dir`; the paths
\* format_filename is given are files, so path.is_dir() is false
is_exe_or_package(n, dir, cfg) ==
    \/ /\ extension(n) # NoneVal
       /\ \E i \in 1..Len(cfg.detection.exe_extensions) :
              to_lowercase(cfg.detection.exe_extensions[i]) = to_lowercase(extension(n)[2])
    \/ \E i \in 1..Len(cfg.detection.package_dirs) :
              cfg.detection.package_dirs[i] \in dir

replace_spaces(s) == [i \in 1..Len(s) |-> IF s[i] = " " THEN "_" ELSE s[i]]

\* the loop over config.behaviors without its `break`
RECURSIVE apply_behaviors_no_break(_, _, _)
apply_behaviors_no_break(res, behaviors, i) ==
    IF i > Len(behaviors) THEN res
    ELSE apply_behaviors_no_break(
             IF matches_pattern(res, behaviors[i].pattern)
             THEN apply_style(res, behaviors[i].style) ELSE res,
             behaviors, i + 1)

\* the loop over config.behaviors, from the i-th on: the first match is applied
RECURSIVE apply_behaviors(_, _, _)
apply_behaviors(res, behaviors, i) ==
    IF i > Len(behaviors) THEN res
    ELSE IF matches_pattern(res, behaviors[i].pattern)
         THEN apply_style(res, behaviors[i].style)
         ELSE apply_behaviors(res, behaviors, i + 1)

\* format_filename up to the timestamp step, the `else` of the detection lost
styled_name_no_else(n, cfg, det) ==
    LET res == apply_behaviors(IF det THEN to_kebab_case(n) ELSE n, cfg.behaviors, 1)
    IN IF cfg.replace_spaces THEN replace_spaces(res) ELSE res

\* format_filename up to the timestamp step
styled_name(n, cfg, det) ==
    IF det THEN to_kebab_case(n)
    ELSE LET res == apply_behaviors(n, cfg.behaviors, 1)
         IN IF cfg.replace_spaces THEN replace_spaces(res) ELSE res

Digit(k) == <<"0", "1", "2", "3", "4", "5", "6", "7", "8", "9">>[k + 1]

\* "%Y_%m_%d" of the date, then "__"
get_timestamp_prefix(date) ==
    << Digit((date.y \div 1000) % 10), Digit((date.y \div 100) % 10),
       Digit((date.y \div 10) % 10), Digit(date.y % 10), "_",
       Digit(date.m \div 10), Digit(date.m % 10), "_",
       Digit(date.d \div 10), Digit(date.d % 10), "_", "_" >>

\* the timestamp step, skipping a name that already carries the prefix
stamped_name_once(res, ts, date) ==
    IF ts /\ ~starts_with(res, get_timestamp_prefix(date))
    THEN get_timestamp_prefix(date) \o res ELSE res

stamped_name(res, ts, date) ==
    IF ts THEN get_timestamp_prefix(date) \o res ELSE res

changed_name(res, n) == IF res # n THEN Some(res) ELSE NoneVal

format_filename(n, cfg, dir, ts, date) ==
    changed_name(stamped_name(styled_name(n, cfg, is_exe_or_package(n, dir, cfg)),
                              ts, date), n)

(***************************************************************************)
(* format_filename, step by step, on bounded inputs                        *)
(***************************************************************************)
FmtAlphabet == {"A", "a", " ", "_", "."}

\* a substring pattern, a suffix pattern and a pattern every name matches,
\* one for each style; the name "Aa" matches all three
Behaviors ==
    { [pattern |-> <<"A">>, style |-> "SnakeCase"],
      [pattern |-> <<"*", "a">>, style |-> "CamelCase"],
      [pattern |-> <<"*">>, style |-> "KebabCase"] }

BehaviorLists == UNION {[1..k -> Behaviors] : k \in 0..MaxBehaviors}

PackageFile == <<"p", "k", "g">>

\* an exe extension written in upper case, one package file
FmtDetection == [exe_extensions |-> << <<"A">> >>, package_dirs |-> <<PackageFile>>]

Dates == {[y |-> 2026, m |-> 10, d |-> 29], [y |-> 2024, m |-> 1, d |-> 5]}

\* short names, and names that already carry a date prefix
FmtNames ==
    Strs(FmtAlphabet, MaxNameLen)
    \cup {get_timestamp_prefix(date) \o tail :
             date \in Dates, tail \in Strs(FmtAlphabet, MaxTailLen)}

InitFmt ==
    /\ name \in FmtNames
    /\ config \in [replace_spaces : BOOLEAN, behaviors : BehaviorLists,
                   detection : {FmtDetection}]
    /\ \E pkg \in BOOLEAN : fs = {name} \cup (IF pkg THEN {PackageFile} ELSE {})
    /\ timestamp \in BOOLEAN
    /\ today = [y |-> 2026, m |-> 10, d |-> 29]
    /\ result = name
    /\ detected = FALSE
    /\ ret = NoneVal
    /\ pc = "fmt"
    /\ fn = "none" /\ input = <<>> /\ cur = <<>> /\ pos = 0 /\ acc = <<>>
    /\ pass = 0 /\ first = <<>>
    /\ fs0 = {} /\ root = "none" /\ cfgHere = FALSE /\ pending = {} /\ added = {}
    /\ revisits = 0 /\ order = <<>> /\ inplace = FALSE /\ out = <<>>
    /\ exit = -1

\* lines 159-177: detection, else behaviors and space replacement
FmtStyle ==
    /\ pc = "fmt"
    /\ detected' = is_exe_or_package(name, fs, config)
    /\ result' = styled_name(result, config, detected')
    /\ pc' = "styled"
    /\ UNCHANGED <<name, config, fs, timestamp, today, ret>>
    /\ UNCHANGED <<caseVars, runVars>>

\* lines 179-183
FmtTimestamp ==
    /\ pc = "styled"
    /\ result' = stamped_name(result, timestamp, today)
    /\ pc' = "stamped"
    /\ UNCHANGED <<name, config, fs, timestamp, today, detected, ret>>
    /\ UNCHANGED <<caseVars, runVars>>

\* lines 185-189
FmtReturn ==
    /\ pc = "stamped"
    /\ ret' = changed_name(result, name)
    /\ pc' = "returned"
    /\ UNCHANGED <<name, config, fs, timestamp, today, result, detected>>
    /\ UNCHANGED <<caseVars, runVars>>

NextFmt == FmtStyle \/ FmtTimestamp \/ FmtReturn

SpecFmt == InitFmt /\ [][NextFmt]_vars

(***************************************************************************)
(* process_path over one directory                                         *)
(***************************************************************************)
default_exe_extensions == << <<"e", "x", "e">>, <<"b", "i", "n">>, <<"a", "p", "p">> >>

default_package_dirs ==
    << <<"p", "a", "c", "k", "a", "g", "e", ".", "j", "s", "o", "n">>,
       <<"C", "a", "r", "g", "o", ".", "t", "o", "m", "l">>,
       <<"p", "y", "p", "r", "o", "j", "e", "c", "t", ".", "t", "o", "m", "l">> >>

\* Config::default()
DefaultConfig ==
    [replace_spaces |-> TRUE, behaviors |-> <<>>,
     detection |-> [exe_extensions |-> default_exe_extensions,
                    package_dirs |-> default_package_dirs]]

\* the files a directory may hold
Candidates ==
    { <<"C", "a", "r", "g", "o", ".", "t", "o", "m", "l">>,
      <<"M", "y", " ", "F", "i", "l", "e", ".", "r", "s">>,
      <<"a", " ", "b">>,
      <<"a", "_", "b">>,
      <<"_">> }

ConfigFile == <<"n", "a", "m", "e", "f", "m", "t", ".", "t", "o", "m", "l">>

\* the state main starts in: the tree, the path given, the flags, whether
\* --config is given ("config_arg") or not ("config_default"), and whether the
\* config path is an absent file of the directory that is processed
InitRun ==
    /\ root \in {"dir", "file", "missing"}
    /\ fs0 \in {S \in SUBSET Candidates :
                   /\ Cardinality(S) <= MaxFiles
                   /\ root = "missing" => S = {}
                   /\ root = "file" => S # {}}
    /\ fs = fs0
    /\ cfgHere \in BOOLEAN
    /\ pending \in (IF root = "file" THEN {{f} : f \in fs0} ELSE {{}})
    /\ added = {}
    /\ revisits = 0
    /\ order = <<>>
    /\ inplace \in BOOLEAN
    /\ timestamp \in BOOLEAN
    /\ today = [y |-> 2026, m |-> 10, d |-> 29]
    /\ config = DefaultConfig
    /\ out = <<>>
    /\ exit = -1
    /\ pc \in {"config_arg", "config_default"}
    /\ name = <<>> /\ result = <<>> /\ detected = FALSE /\ ret = NoneVal
    /\ fn = "none" /\ input = <<>> /\ cur = <<>> /\ pos = 0 /\ acc = <<>>
    /\ pass = 0 /\ first = <<>>

\* get_config_path returns the path of --config, or the one under the
\* platform's config directory
GetConfigPath ==
    /\ pc \in {"config_arg", "config_default"}
    /\ pc' = "load"
    /\ UNCHANGED runVars
    /\ UNCHANGED <<caseVars, fmtVars>>

\* main, lines 349-355: without --config and with no config directory to be
\* found, get_config_path returns Err: the error is printed, exit(1)
ConfigDirUnknown ==
    /\ pc = "config_default"
    /\ exit' = 1
    /\ pc' = "done"
    /\ UNCHANGED <<fs0, root, cfgHere, pending, added, revisits, order, inplace, out>>
    /\ UNCHANGED <<caseVars, fmtVars>>

\* load_config: an absent config file is written with the defaults (its
\* directory created first), then read back: the default configuration.
\* process_path then looks at the path; a directory's walk starts from what
\* the directory holds now.
LoadConfig ==
    /\ pc = "load"
    /\ fs' = IF cfgHere THEN fs \cup {ConfigFile} ELSE fs
    /\ fs0' = fs'
    /\ root' = IF cfgHere /\ root = "missing" THEN "dir" ELSE root
    /\ pending' = IF root' = "dir" THEN fs' ELSE pending
    /\ pc' = "path"
    /\ UNCHANGED <<name, config, timestamp, today, result, detected, ret>>
    /\ UNCHANGED <<cfgHere, added, revisits, order, inplace, out, exit>>
    /\ UNCHANGED caseVars

\* load_config, line 118: the directory of the config file cannot be created;
\* a warning, and the default configuration is used
LoadConfigDirFails ==
    /\ pc = "load"
    /\ cfgHere /\ root = "missing"
    /\ pc' = "path"
    /\ UNCHANGED <<fs0, root, cfgHere, pending, added, revisits, order, inplace, out, exit>>
    /\ UNCHANGED <<caseVars, fmtVars>>

\* load_config, line 127: the directory is there (created if it was not) and
\* writing the file fails; a warning, and the default configuration is used
LoadConfigWriteFails ==
    /\ pc = "load"
    /\ cfgHere
    /\ root' = IF root = "missing" THEN "dir" ELSE root
    /\ pending' = IF root' = "dir" THEN fs ELSE pending
    /\ pc' = "path"
    /\ UNCHANGED <<fs0, cfgHere, added, revisits, order, inplace, out, exit>>
    /\ UNCHANGED <<caseVars, fmtVars>>

\* an error that is reported without leaving the loop
after_error_continue == pc

\* where `?` leaves process_path once a step returned Err
after_error == "done"

\* the name format_filename gives the file f
new_name(f) == format_filename(f, config, fs, timestamp, today)

\* The entries the walk can yield next.  The directory is read while renames
\* are made in it: an entry that was there when the walk began is yielded; a
\* name a rename created since may be yielded or not.
Yieldable ==
    IF pc # "path" \/ root = "missing" THEN {}
    ELSE pending \cup (IF root = "dir" /\ revisits < MaxRevisits THEN added ELSE {})

\* the walk's bookkeeping when it yields f
yield(f) ==
    /\ order' = Append(order, f)
    /\ pending' = pending \ {f}
    /\ revisits' = IF f \in pending THEN revisits ELSE revisits + 1

\* line 321: neither a file nor a directory
PathMissing ==
    /\ pc = "path" /\ root = "missing"
    /\ exit' = 1
    /\ pc' = "done"
    /\ UNCHANGED <<fs0, root, cfgHere, pending, added, revisits, order, inplace, out>>
    /\ UNCHANGED <<caseVars, fmtVars>>

\* line 315: the walk yields an error instead of an entry
WalkEntryFails ==
    /\ pc = "path" /\ root = "dir"
    /\ exit' = 1
    /\ pc' = after_error
    /\ UNCHANGED <<fs0, root, cfgHere, pending, added, revisits, order, inplace, out>>
    /\ UNCHANGED <<caseVars, fmtVars>>

\* process_file: format_filename returned None
FileUnchanged ==
    \E f \in Yieldable :
        /\ new_name(f) = NoneVal
        /\ yield(f)
        /\ added' = added \ {f}
        /\ UNCHANGED <<fs0, root, cfgHere, inplace, out, exit, pc>>
        /\ UNCHANGED <<caseVars, fmtVars>>

\* process_file, dry run: the rename is printed
WouldRename ==
    \E f \in Yieldable :
        /\ new_name(f) # NoneVal
        /\ ~inplace
        /\ out' = Append(out, <<"Would rename", f, new_name(f)[2]>>)
        /\ yield(f)
        /\ added' = added \ {f}
        /\ UNCHANGED <<fs0, root, cfgHere, inplace, exit, pc>>
        /\ UNCHANGED <<caseVars, fmtVars>>

\* process_file, in place: fs::rename succeeds (replacing a file of that name);
\* the empty name joins to the directory itself, which no file can replace
Renamed ==
    \E f \in Yieldable :
        /\ new_name(f) # NoneVal
        /\ inplace
        /\ new_name(f)[2] # <<>>
        /\ fs' = (fs \ {f}) \cup {new_name(f)[2]}
        /\ out' = Append(out, <<"Renamed", f, new_name(f)[2]>>)
        /\ yield(f)
        /\ added' = (added \ {f}) \cup ({new_name(f)[2]} \ pending')
        /\ UNCHANGED <<name, config, timestamp, today, result, detected, ret>>
        /\ UNCHANGED <<fs0, root, cfgHere, inplace, exit, pc>>
        /\ UNCHANGED caseVars

\* process_file, in place: fs::rename returns an error
RenameFails ==
    \E f \in Yieldable :
        /\ new_name(f) # NoneVal
        /\ inplace
        /\ exit' = 1
        /\ pc' = after_error
        /\ yield(f)
        /\ added' = added \ {f}
        /\ UNCHANGED <<fs0, root, cfgHere, inplace, out>>
        /\ UNCHANGED <<caseVars, fmtVars>>

\* the walk ends (every entry that was there at its start was yielded):
\* Ok(()) from process_path, main returns
Finished ==
    /\ pc = "path" /\ root \in {"dir", "file"}
    /\ pending = {}
    /\ exit' = 0
    /\ pc' = "done"
    /\ UNCHANGED <<fs0, root, cfgHere, pending, added, revisits, order, inplace, out>>
    /\ UNCHANGED <<caseVars, fmtVars>>

NextRun ==
    \/ GetConfigPath \/ ConfigDirUnknown
    \/ LoadConfig \/ LoadConfigDirFails \/ LoadConfigWriteFails
    \/ PathMissing \/ WalkEntryFails \/ FileUnchanged \/ WouldRename
    \/ Renamed \/ RenameFails \/ Finished

SpecRun == InitRun /\ [][NextRun]_vars

(***************************************************************************)
(* Properties                                                              *)
(***************************************************************************)
MatchingBehaviors == {i \in 1..Len(config.behaviors) :
                         matches_pattern(name, config.behaviors[i].pattern)}

FirstMatching == CHOOSE i \in MatchingBehaviors : \A j \in MatchingBehaviors : i <= j

HasChar(s, c) == \E i \in 1..Len(s) : s[i] = c

\* C1: when the path is not detected and some behavior matches the name, the
\* result before the timestamp step is the name in the style of the first
\* matching behavior, whatever replace_spaces is.
C1_FirstMatchWins ==
    (pc = "styled" /\ ~is_exe_or_package(name, fs, config) /\ MatchingBehaviors # {})
        => result = apply_style(name, config.behaviors[FirstMatching].style)

\* two behaviors match a name with a space, their styles give different
\* names, and replace_spaces is on
C1_Witness ==
    /\ pc = "styled" /\ ~detected /\ config.replace_spaces /\ HasChar(name, " ")
    /\ \E i, j \in MatchingBehaviors :
          /\ i < j
          /\ apply_style(name, config.behaviors[i].style)
                # apply_style(name, config.behaviors[j].style)
    /\ result = apply_style(name, config.behaviors[FirstMatching].style)

\* C2: when is_exe_or_package holds, the result before the timestamp step is
\* to_kebab_case(name), for every behaviors list and replace_spaces value.
C2_DetectionPrecedence ==
    (pc = "styled" /\ is_exe_or_package(name, fs, config))
        => result = to_kebab_case(name)

\* a detected path whose name a behavior of another style matches
C2_Witness ==
    /\ pc = "styled" /\ detected /\ config.replace_spaces
    /\ \E i \in MatchingBehaviors :
          apply_style(name, config.behaviors[i].style) # to_kebab_case(name)
    /\ result = to_kebab_case(name)

\* C6: with timestamp requested, format_filename returns a new name: the date
\* prefix followed by what the earlier steps produce.
C6_TimestampAlwaysChanges ==
    (pc = "returned" /\ timestamp)
        => ret = Some(get_timestamp_prefix(today)
                      \o styled_name(name, config, is_exe_or_package(name, fs, config)))

\* a name that already begins with today's prefix and that the earlier steps
\* leave as it is
C6_Witness ==
    /\ pc = "returned" /\ timestamp
    /\ starts_with(name, get_timestamp_prefix(today))
    /\ styled_name(name, config, is_exe_or_package(name, fs, config)) = name
    /\ ret = Some(get_timestamp_prefix(today) \o name)

\* C9: format_filename never returns an empty new name for a non-empty name.
C9_NeverEmptyName ==
    (pc = "returned" /\ name # <<>>) => ret # Some(<<>>)

\* C4: to_snake_case and to_kebab_case are idempotent.
C4_SnakeKebabIdempotent ==
    (fn \in {"snake", "kebab"} /\ pass = 2 /\ CaseDone) => acc = first

\* a second kebab pass over the output of a first pass that changed its input,
\* dropping a separator
C4_Witness ==
    /\ fn = "kebab" /\ pass = 2 /\ CaseDone
    /\ first # input /\ HasChar(first, "-") /\ Len(first) < Len(input)
    /\ acc = first

\* C3: to_camel_case is idempotent.
C3_CamelIdempotent ==
    (fn = "camel" /\ pass = 2 /\ CaseDone) => acc = first

HasDouble(s, c) == \E i \in 1..(Len(s) - 1) : s[i] = c /\ s[i + 1] = c

\* C5: after every character of the scan, the result of to_snake_case has no
\* leading and no doubled "_", and that of to_kebab_case no leading and no
\* doubled "-".
C5_NoLeadingOrDoubleSeparator ==
    /\ (fn = "snake" /\ pass = 1) => (~starts_with(acc, <<"_">>) /\ ~HasDouble(acc, "_"))
    /\ (fn = "kebab" /\ pass = 1) => (~starts_with(acc, <<"-">>) /\ ~HasDouble(acc, "-"))

RECURSIVE NonEmpty(_)
NonEmpty(ws) == IF ws = <<>> THEN <<>>
                ELSE IF Head(ws) = <<>> THEN NonEmpty(Tail(ws))
                ELSE <<Head(ws)>> \o NonEmpty(Tail(ws))

RECURSIVE Capitalized(_)
Capitalized(ws) ==
    IF ws = <<>> THEN <<>>
    ELSE <<char_to_uppercase(Head(ws)[1])>> \o Tail(Head(ws)) \o Capitalized(Tail(ws))

CamelOfWords(ws) == IF ws = <<>> THEN <<>>
                    ELSE to_lowercase(Head(ws)) \o Capitalized(Tail(ws))

\* C7: to_camel_case lower-cases the first non-empty word, capitalizes the
\* first character of each later non-empty word, and concatenates them.
C7_CamelWords ==
    (fn = "camel" /\ pass = 1 /\ CaseDone)
        => acc = CamelOfWords(NonEmpty(split(input, CamelSeps)))

RECURSIVE DryRun(_, _)
DryRun(files, dir) ==
    IF files = <<>> THEN <<>>
    ELSE LET new == format_filename(Head(files), config, dir, timestamp, today)
         IN (IF new = NoneVal THEN <<>> ELSE << <<Head(files), new[2]>> >>)
            \o DryRun(Tail(files), dir)

Pairs(lines) == [i \in 1..Len(lines) |-> <<lines[i][2], lines[i][3]>>]

\* the files of the tree in the order the run first came to them
RECURSIVE FirstVisits(_, _)
FirstVisits(files, left) ==
    IF files = <<>> THEN <<>>
    ELSE IF Head(files) \in left
         THEN <<Head(files)>> \o FirstVisits(Tail(files), left \ {Head(files)})
         ELSE FirstVisits(Tail(files), left)

\* C8: an in-place run that visits the files of the tree once each renames
\* exactly what a dry run over the same tree, in the same order, reports.
C8_InplaceMatchesDryRun ==
    (exit = 0 /\ inplace /\ order = FirstVisits(order, fs0))
        => Pairs(out) = DryRun(order, fs0)

\* a dry run prints what DryRun computes, and visits each file once
DryRunIsDryRun ==
    (exit = 0 /\ ~inplace) => (Pairs(out) = DryRun(order, fs0)
                                /\ order = FirstVisits(order, fs0))

\* an in-place run came to a file it had renamed and renamed it again
RenamedTwice ==
    \E i, j \in 1..Len(out) : i < j /\ out[i][3] = out[j][2] /\ exit = 0

\* C10: files are handled one at a time; a failing step ends the run with exit
\* code 1, leaving the renames made so far in place, and nothing is renamed,
\* reported or retried after it.
C10_AbortOnFirstFailure ==
    [][ /\ (WalkEntryFails \/ RenameFails \/ PathMissing)
            => (exit' = 1 /\ fs' = fs /\ out' = out)
        /\ exit = 1 => (fs' = fs /\ out' = out /\ order' = order /\ exit' = 1)
        /\ Len(order') <= Len(order) + 1
        /\ Len(out') <= Len(out) + 1 ]_vars

\* a run that failed after a rename, with files left unvisited
C10_Witness ==
    /\ exit = 1 /\ inplace /\ fs # fs0
    /\ Len(out) >= 1 /\ pending # {}

====
